---- MODULE Spec2Model ----
(***************************************************************************)
(* A model of main.py: one run of main(), which picks a file, reads the    *)
(* worksheet structure (analyze_excel_file, lines 32-54), extracts the     *)
(* macro modules through an Excel automation session (lines 56-89),        *)
(* writes the text report (save_analysis_to_file) and shows a dialog.      *)
(* Every call into a collaborator (tkinter, openpyxl, win32com, the file   *)
(* system) either returns or raises; which one is a choice of the          *)
(* environment.                                                            *)
(***************************************************************************)
EXTENDS Integers, Sequences, FiniteSets, TLC

VARIABLES
    pc,          \* position of the run inside main / analyze_excel_file
    file_path,   \* main: the picker's result ("" when cancelled)
    wb,          \* analyze_excel_file: the openpyxl workbook, a sequence of sheets
    results,     \* analyze_excel_file: the results dict, a function on its keys
    excel,       \* analyze_excel_file: the local variable excel ("None" or "app")
    app,         \* the hosted Excel application: "none", "running" or "quit"
    com_inits,   \* CoInitialize calls not yet matched by a CoUninitialize
    calls,     \* the calls made to the collaborators (openpyxl, COM), in order
    wb_vba,      \* the workbook handle opened through automation
    components,  \* what wb_vba.VBProject.VBComponents enumerates
    idx,         \* position of the for loop over the components
    exc,         \* the exception in flight or handled by main: [type, msg, stage]
    out,         \* the report file on disk: [state, path, content]
    output_file, \* main: the value save_analysis_to_file returned
    dialog,      \* the message box shown last: [kind, title, msg]
    console      \* the lines printed to standard output

vars == <<pc, file_path, wb, results, excel, app, com_inits, calls, wb_vba,
          components, idx, exc, out, output_file, dialog, console>>

-----------------------------------------------------------------------------
(* Bounds of the inputs.                                                   *)

MaxSheets == 2
MaxComponents == 2

-----------------------------------------------------------------------------
(* Text helpers: Python's string operations, computed on the characters.   *)

RECURSIVE Repeat(_, _)
Repeat(s, n) == IF n <= 0 THEN "" ELSE s \o Repeat(s, n - 1)

\* sub in s
Contains(s, sub) ==
    \E i \in 1..(Len(s) - Len(sub) + 1) : SubSeq(s, i, i + Len(sub) - 1) = sub

\* the positions of character c in s
Positions(s, c) == {i \in 1..Len(s) : SubSeq(s, i, i) = c}

SetMax(S) == CHOOSE m \in S : \A n \in S : n <= m

\* the last position of character c in s, 0 when there is none (str.rfind + 1)
LastIndex(s, c) == IF Positions(s, c) = {} THEN 0 ELSE SetMax(Positions(s, c))

\* s is made of "/" only
AllSlashes(s) == \A i \in 1..Len(s) : SubSeq(s, i, i) = "/"

\* s.rstrip("/")
RECURSIVE RStripSlash(_)
RStripSlash(s) ==
    IF Len(s) > 0 /\ SubSeq(s, Len(s), Len(s)) = "/"
    THEN RStripSlash(SubSeq(s, 1, Len(s) - 1))
    ELSE s

\* The os.path functions follow posixpath: the separator is "/".

\* os.path.basename: what follows the last separator
Basename(p) == SubSeq(p, LastIndex(p, "/") + 1, Len(p))

\* os.path.dirname: what precedes the last separator, that separator
\* included, with the trailing separators stripped unless it is the root
Dirname(p) ==
    LET head == SubSeq(p, 1, LastIndex(p, "/"))
    IN  IF head # "" /\ ~AllSlashes(head) THEN RStripSlash(head) ELSE head

\* os.path.splitext(p)[0]: p without its last extension; the extension starts
\* at the last dot of the last path component, and the leading dots of that
\* component start none
SplitextRoot(p) ==
    LET sepIndex == LastIndex(p, "/")
        dotIndex == LastIndex(p, ".")
    IN  IF /\ dotIndex > sepIndex
           /\ \E i \in (sepIndex + 1)..(dotIndex - 1) : SubSeq(p, i, i) # "."
        THEN SubSeq(p, 1, dotIndex - 1)
        ELSE p

\* os.path.join(dir, name): an absolute name replaces dir; a separator is
\* added unless dir is empty or ends in one
PathJoin(dir, name) ==
    IF Len(name) > 0 /\ SubSeq(name, 1, 1) = "/" THEN name
    ELSE IF dir = "" \/ SubSeq(dir, Len(dir), Len(dir)) = "/" THEN dir \o name
    ELSE dir \o "/" \o name

\* str(True) / str(False)
PyBool(b) == IF b THEN "True" ELSE "False"

-----------------------------------------------------------------------------
(* The inputs a run can meet.                                              *)

\* what the file dialog can return: "" is a cancelled dialog
ExistingPath == "C:/docs/book.xlsm"
MissingPath == "C:/docs/gone.v2.xlsx"
PickerResults == {"", ExistingPath, MissingPath}

\* PathExists with the check lost: every path is taken to exist
PathExists_Always(p) == TRUE

\* os.path.exists
PathExists(p) == p = ExistingPath

\* worksheet titles are unique within a workbook: a workbook of n sheets has
\* the first n of these, in file order
SheetTitles == <<"Sheet1", "Sheet2", "Data", "Summary">>
Dimensions == {"A1:A1", "A1:B2"}
\* sheet.print_area: an unset print area is falsy, written "" here
PrintAreas == {"", "'Sheet1'!$A$1:$B$2"}

Workbooks ==
    UNION {[1..n -> [dimension : Dimensions, print_area : PrintAreas]]
           : n \in 1..MaxSheets}

\* sheet i of workbook w as openpyxl shows it
Sheet(w, i) ==
    [title |-> SheetTitles[i], dimension |-> w[i].dimension,
     print_area |-> w[i].print_area]

\* component names are unique within a macro project; Type: 100 = document,
\* 1 = standard module, 2 = class module, 3 = form
ComponentNames == <<"ThisWorkbook", "Module1", "Class1", "UserForm1">>
ComponentTypes == <<100, 1, 2, 3>>
EmptyModule == "(Empty Module)"
\* the code containers: CountOfLines and the text Lines(1, CountOfLines) returns
CodeModules ==
    {[lines |-> 0, text |-> ""],
     [lines |-> 2, text |-> "Sub A()\r\nEnd Sub"],
     [lines |-> 1, text |-> EmptyModule]}

Projects == UNION {[1..n -> CodeModules] : n \in 0..MaxComponents}

Component(p, i) ==
    [Name |-> ComponentNames[i], Type |-> ComponentTypes[i],
     CountOfLines |-> p[i].lines, Lines |-> p[i].text]

\* str(e) of the errors the automation interface raises
TrustPhrase == "Programmatic access to Visual Basic Project is not trusted"
ComErrors ==
    {"(-2147352567, 'Exception occurred.', 'Programmatic access to Visual Basic Project is not trusted')",
     "(-2147418111, 'Call was rejected by callee.')"}

\* datetime.now() in the two formats the program uses
AnalysisDate == "2024-05-17 10:30:00"
Timestamp == "20240517_103000"

NoExc == [type |-> "", msg |-> "", stage |-> ""]
Raised(type, msg, stage) == [type |-> type, msg |-> msg, stage |-> stage]
NoDialog == [kind |-> "none", title |-> "", msg |-> ""]
NoFile == [state |-> "absent", path |-> "", content |-> <<>>]
NoResults == <<>>

-----------------------------------------------------------------------------
(* The pure parts of analyze_excel_file.                                   *)

\* a dict, in insertion order: a sequence of <<key, value>> pairs
DictKeys(d) == {d[i][1] : i \in 1..Len(d)}
DictGet(d, k) == LET i == CHOOSE j \in 1..Len(d) : d[j][1] = k IN d[i][2]
DictSet(d, k, v) ==
    IF k \in DictKeys(d)
    THEN [i \in 1..Len(d) |-> IF d[i][1] = k THEN <<k, v>> ELSE d[i]]
    ELSE Append(d, <<k, v>>)

\* the results dict built before any analysis
InitialResults(path) ==
    [filename |-> Basename(path), full_path |-> path,
     analysis_date |-> AnalysisDate,
     worksheets |-> <<>>, modules |-> <<>>, module_code |-> <<>>]

\* SheetInfo comparing the dimension with a single cell reference
SheetInfo_A1(sheet) ==
    [name |-> sheet.title,
     has_content |-> sheet.dimension # "A1",
     print_area |-> IF sheet.print_area # "" THEN sheet.print_area ELSE "Not Set"]

\* the sheet_info dict of one worksheet
SheetInfo(sheet) ==
    [name |-> sheet.title,
     has_content |-> sheet.dimension # "A1:A1",
     print_area |-> IF sheet.print_area # "" THEN sheet.print_area ELSE "Not Set"]

\* the for loop over wb.worksheets
RECURSIVE ReadWorksheets(_, _)
ReadWorksheets(sheets, acc) ==
    IF sheets = <<>> THEN acc
    ELSE ReadWorksheets(Tail(sheets), Append(acc, SheetInfo(Head(sheets))))

\* the module_info dict of one component
ModuleInfo(component) ==
    [name |-> component.Name, type |-> component.Type,
     code_lines |-> component.CountOfLines]

\* ModuleCode without the empty-module branch
ModuleCode_NoPlaceholder(component) == component.Lines

\* what is stored in module_code for one component
ModuleCode(component) ==
    IF component.CountOfLines > 0 THEN component.Lines ELSE EmptyModule

\* the except clause's classification of str(e)
VbaErrorText(msg) ==
    IF Contains(msg, TrustPhrase)
    THEN "VBA access not enabled in Excel Trust Center"
    ELSE msg

HasVbaError(r) == "vba_error" \in DOMAIN r

-----------------------------------------------------------------------------
(* The report save_analysis_to_file composes, as the lines it writes. A    *)
(* module's source is one entry, whatever line breaks it holds.            *)

Title == <<Repeat("=", 80), "Excel File Analysis Report", Repeat("=", 80), "">>

FileSection(r) ==
    <<"FILE INFORMATION", Repeat("-", 50),
      "Filename: " \o r.filename,
      "Full Path: " \o r.full_path,
      "Analysis Date: " \o r.analysis_date, "">>

RECURSIVE SheetBlocks(_)
SheetBlocks(sheets) ==
    IF sheets = <<>> THEN <<>>
    ELSE <<"", "Sheet Name: " \o Head(sheets).name,
           "Has Content: " \o PyBool(Head(sheets).has_content),
           "Print Area: " \o Head(sheets).print_area>>
         \o SheetBlocks(Tail(sheets))

WorksheetSection(r) ==
    <<"WORKSHEET INFORMATION", Repeat("-", 50),
      "Total Worksheets: " \o ToString(Len(r.worksheets))>>
    \o SheetBlocks(r.worksheets) \o <<"">>

RECURSIVE ModuleBlocks(_)
ModuleBlocks(modules) ==
    IF modules = <<>> THEN <<>>
    ELSE <<"", "Module Name: " \o Head(modules).name,
           "Type: " \o ToString(Head(modules).type),
           "Code Lines: " \o ToString(Head(modules).code_lines)>>
         \o ModuleBlocks(Tail(modules))

RECURSIVE CodeBlocks(_)
CodeBlocks(code) ==
    IF code = <<>> THEN <<>>
    ELSE <<"", Head(code)[1], Repeat("-", Len(Head(code)[1])), Head(code)[2], "">>
         \o CodeBlocks(Tail(code))

ErrorSection(r) ==
    <<"VBA MODULE INFORMATION", Repeat("-", 50), "Error: " \o r.vba_error, "">>

ModuleSection(r) ==
    <<"VBA MODULE INFORMATION", Repeat("-", 50),
      "Total Modules: " \o ToString(Len(r.modules))>>
    \o ModuleBlocks(r.modules) \o <<"">>

CodeSection(r) ==
    <<"VBA MODULE CODE", Repeat("-", 50)>> \o CodeBlocks(r.module_code)

\* ReportParts with the source listing written after the error as well
ReportParts_AlwaysCode(r) ==
    IF HasVbaError(r)
    THEN <<Title, FileSection(r), WorksheetSection(r), ErrorSection(r), CodeSection(r)>>
    ELSE <<Title, FileSection(r), WorksheetSection(r), ModuleSection(r),
           CodeSection(r)>>

\* the parts of the report in the order they are written
ReportParts(r) ==
    IF HasVbaError(r)
    THEN <<Title, FileSection(r), WorksheetSection(r), ErrorSection(r)>>
    ELSE <<Title, FileSection(r), WorksheetSection(r), ModuleSection(r),
           CodeSection(r)>>

RECURSIVE Flatten(_)
Flatten(parts) == IF parts = <<>> THEN <<>> ELSE Head(parts) \o Flatten(Tail(parts))

\* save_analysis_to_file's output_dir argument: None, or a directory
NoOutputDir == <<>>
GivenOutputDir(dir) == <<dir>>

\* lines 97-103, the output path:
\* <output_dir>/<base name>_analysis_<timestamp>.txt, where output_dir
\* defaults to the directory of the workbook
OutputPath(r, output_dir) ==
    LET dir == IF output_dir = NoOutputDir THEN Dirname(r.full_path)
               ELSE output_dir[1]
    IN  PathJoin(dir, SplitextRoot(r.filename) \o "_analysis_" \o Timestamp \o ".txt")

-----------------------------------------------------------------------------
(* The run.                                                                *)

Init ==
    /\ pc = "select"
    /\ file_path = ""
    /\ wb = <<>>
    /\ results = NoResults
    /\ excel = "None"
    /\ app = "none"
    /\ com_inits = 0
    /\ calls = <<>>
    /\ wb_vba = "none"
    /\ components = <<>>
    /\ idx = 1
    /\ exc = NoExc
    /\ out = NoFile
    /\ output_file = ""
    /\ dialog = NoDialog
    /\ console = <<>>

\* main, line 173: select_file() returns the chosen path, "" on cancel, or
\* tkinter raises (no display)
SelectFile ==
    /\ pc = "select"
    /\ \/ \E p \in PickerResults :
            /\ file_path' = p
            /\ pc' = "picked"
            /\ exc' = exc
       \/ /\ exc' = Raised("TclError", "no display name and no $DISPLAY environment variable", "picker")
          /\ pc' = "handler"
          /\ file_path' = file_path
    /\ UNCHANGED <<wb, results, excel, app, com_inits, calls, wb_vba, components,
                   idx, out, output_file, dialog, console>>

\* CancelledSelection reporting the cancellation in a message box
CancelledSelection_Dialog ==
    /\ pc = "picked"
    /\ file_path = ""
    /\ dialog' = [kind |-> "info", title |-> "Cancelled", msg |-> "No file selected"]
    /\ pc' = "done"
    /\ UNCHANGED <<file_path, wb, results, excel, app, com_inits, calls, wb_vba,
                   components, idx, exc, out, output_file, console>>

\* main, lines 174-176: an empty selection prints a line and returns
CancelledSelection ==
    /\ pc = "picked"
    /\ file_path = ""
    /\ console' = Append(console, "No file selected")
    /\ pc' = "done"
    /\ UNCHANGED <<file_path, wb, results, excel, app, com_inits, calls, wb_vba,
                   components, idx, exc, out, output_file, dialog>>

\* analyze_excel_file, lines 32-42: the existence check, then the results dict
AnalyzeStart ==
    /\ pc = "picked"
    /\ file_path # ""
    /\ IF ~PathExists(file_path)
       THEN /\ exc' = Raised("FileNotFoundError", "File not found: " \o file_path, "reader")
            /\ pc' = "handler"
            /\ results' = results
       ELSE /\ results' = InitialResults(file_path)
            /\ pc' = "load"
            /\ exc' = exc
    /\ UNCHANGED <<file_path, wb, excel, app, com_inits, calls, wb_vba, components,
                   idx, out, output_file, dialog, console>>

\* line 45: load_workbook reads the file, or raises on a file it cannot parse
LoadWorkbook ==
    /\ pc = "load"
    /\ calls' = Append(calls, "load_workbook")
    /\ \/ \E w \in Workbooks :
            /\ wb' = [i \in DOMAIN w |-> Sheet(w, i)]
            /\ pc' = "sheets"
            /\ exc' = exc
       \/ /\ exc' = Raised("BadZipFile", "File is not a zip file", "reader")
          /\ pc' = "handler"
          /\ wb' = wb
    /\ UNCHANGED <<file_path, results, excel, app, com_inits, wb_vba, components,
                   idx, out, output_file, dialog, console>>

\* lines 48-54: one sheet_info per worksheet, in workbook order
ReadSheets ==
    /\ pc = "sheets"
    /\ results' = [results EXCEPT !.worksheets = ReadWorksheets(wb, @)]
    /\ pc' = "create"
    /\ UNCHANGED <<file_path, wb, excel, app, com_inits, calls, wb_vba, components,
                   idx, exc, out, output_file, dialog, console>>

\* lines 57-59 and create_excel_instance, lines 9-20: CoInitialize, then
\* Dispatch and the two property writes; any of them failing is re-raised
\* wrapped, and then line 59 assigns nothing to excel
CreateExcelInstance ==
    /\ pc = "create"
    /\ com_inits' = com_inits + 1
    /\ \/ /\ calls' = calls \o <<"CoInitialize", "Dispatch">>
          /\ app' = "running"
          /\ excel' = "app"
          /\ pc' = "open"
          /\ exc' = exc
       \/ \E e \in ComErrors :
            /\ calls' = calls \o <<"CoInitialize", "Dispatch">>
            /\ app' = app
            /\ excel' = excel
            /\ exc' = Raised("Exception", "Could not create Excel instance: " \o e, "extractor")
            /\ pc' = "except"
       \/ \E e \in ComErrors :
            /\ calls' = calls \o <<"CoInitialize", "Dispatch">>
            /\ app' = "running"
            /\ excel' = excel
            /\ exc' = Raised("Exception", "Could not create Excel instance: " \o e, "extractor")
            /\ pc' = "except"
    /\ UNCHANGED <<file_path, wb, results, wb_vba, components, idx, out,
                   output_file, dialog, console>>

\* line 60: excel.Workbooks.Open(path, ReadOnly=True)
OpenWorkbook ==
    /\ pc = "open"
    /\ calls' = Append(calls, "Open")
    /\ \/ /\ wb_vba' = "open"
          /\ pc' = "components"
          /\ exc' = exc
       \/ \E e \in ComErrors :
            /\ exc' = Raised("com_error", e, "extractor")
            /\ pc' = "except"
            /\ wb_vba' = wb_vba
    /\ UNCHANGED <<file_path, wb, results, excel, app, com_inits, components, idx,
                   out, output_file, dialog, console>>

\* line 62: wb_vba.VBProject.VBComponents, which the trust policy may refuse
GetComponents ==
    /\ pc = "components"
    /\ \/ \E p \in Projects :
            /\ components' = [i \in DOMAIN p |-> Component(p, i)]
            /\ pc' = "enum"
            /\ exc' = exc
       \/ \E e \in ComErrors :
            /\ exc' = Raised("com_error", e, "extractor")
            /\ pc' = "except"
            /\ components' = components
    /\ idx' = 1
    /\ UNCHANGED <<file_path, wb, results, excel, app, com_inits, calls, wb_vba,
                   out, output_file, dialog, console>>

\* lines 62-75, one iteration: the module_info is appended, then the code is
\* read and stored; an automation call may raise before the append (lines
\* 64-66) or after it (lines 71-72)
EnumComponent ==
    /\ pc = "enum"
    /\ idx <= Len(components)
    /\ LET component == components[idx] IN
       \/ /\ results' = [results EXCEPT
                           !.modules = Append(@, ModuleInfo(component)),
                           !.module_code = DictSet(@, component.Name, ModuleCode(component))]
          /\ idx' = idx + 1
          /\ pc' = pc
          /\ exc' = exc
       \/ \E e \in ComErrors :
            /\ exc' = Raised("com_error", e, "extractor")
            /\ pc' = "except"
            /\ results' = results
            /\ idx' = idx
       \/ \E e \in ComErrors :
            /\ exc' = Raised("com_error", e, "extractor")
            /\ pc' = "except"
            /\ results' = [results EXCEPT !.modules = Append(@, ModuleInfo(component))]
            /\ idx' = idx
    /\ UNCHANGED <<file_path, wb, excel, app, com_inits, calls, wb_vba, components,
                   out, output_file, dialog, console>>

\* line 77: wb_vba.Close(SaveChanges=False), reached when the loop is over
CloseWorkbook ==
    /\ pc = "enum"
    /\ idx > Len(components)
    /\ calls' = Append(calls, "Close")
    /\ \/ /\ wb_vba' = "closed"
          /\ pc' = "finally"
          /\ exc' = exc
       \/ \E e \in ComErrors :
            /\ exc' = Raised("com_error", e, "extractor")
            /\ pc' = "except"
            /\ wb_vba' = wb_vba
    /\ UNCHANGED <<file_path, wb, results, excel, app, com_inits, components, idx,
                   out, output_file, dialog, console>>

\* HandleVbaException recording the error and raising it again, to main
HandleVbaException_Reraise ==
    /\ pc = "except"
    /\ results' = ("vba_error" :> VbaErrorText(exc.msg)) @@ results
    /\ exc' = exc
    /\ pc' = "handler"
    /\ UNCHANGED <<file_path, wb, excel, app, com_inits, calls, wb_vba, components,
                   idx, out, output_file, dialog, console>>

\* lines 78-82: the except clause records vba_error and swallows the exception
HandleVbaException ==
    /\ pc = "except"
    /\ results' = ("vba_error" :> VbaErrorText(exc.msg)) @@ results
    /\ exc' = NoExc
    /\ pc' = "finally"
    /\ UNCHANGED <<file_path, wb, excel, app, com_inits, calls, wb_vba, components,
                   idx, out, output_file, dialog, console>>

\* lines 83-91: the finally clause, then return results. Only when excel was
\* assigned: Quit (whose failure is ignored) and CoUninitialize
Finally ==
    /\ pc = "finally"
    /\ \/ /\ excel # "None"
          /\ \E quit_ok \in BOOLEAN : app' = IF quit_ok THEN "quit" ELSE app
          /\ calls' = calls \o <<"Quit", "CoUninitialize">>
          /\ com_inits' = com_inits - 1
       \/ /\ excel = "None"
          /\ UNCHANGED <<app, calls, com_inits>>
    /\ pc' = "save"
    /\ UNCHANGED <<file_path, wb, results, excel, wb_vba, components, idx, exc,
                   out, output_file, dialog, console>>

\* main, line 182: save_analysis_to_file(results), output_dir left None.
\* open() may fail (nothing is created); a write may fail after any of the
\* parts (the file stays, cut short); otherwise the whole report is on disk
\* and its path is returned
SaveAnalysis ==
    /\ pc = "save"
    /\ LET path == OutputPath(results, NoOutputDir)
           parts == ReportParts(results)
       IN  \/ /\ exc' = Raised("PermissionError", "[Errno 13] Permission denied: '" \o path \o "'", "writer")
              /\ pc' = "handler"
              /\ UNCHANGED <<out, output_file>>
           \/ \E k \in 0..(Len(parts) - 1) :
                /\ out' = [state |-> "partial", path |-> path,
                           content |-> Flatten(SubSeq(parts, 1, k))]
                /\ exc' = Raised("OSError", "[Errno 28] No space left on device", "writer")
                /\ pc' = "handler"
                /\ output_file' = output_file
           \/ /\ out' = [state |-> "complete", path |-> path, content |-> Flatten(parts)]
              /\ output_file' = path
              /\ pc' = "notify"
              /\ exc' = exc
    /\ UNCHANGED <<file_path, wb, results, excel, app, com_inits, calls, wb_vba,
                   components, idx, dialog, console>>

\* main, lines 185-190: the completion notice
ShowCompletion ==
    /\ pc = "notify"
    /\ \/ /\ dialog' = [kind |-> "info", title |-> "Analysis Complete",
                        msg |-> "Analysis has been saved to:\n" \o output_file]
          /\ pc' = "done"
          /\ exc' = exc
       \/ /\ exc' = Raised("TclError", "couldn't connect to display", "notice")
          /\ pc' = "handler"
          /\ dialog' = dialog
    /\ UNCHANGED <<file_path, wb, results, excel, app, com_inits, calls, wb_vba,
                   components, idx, out, output_file, console>>

\* ErrorText without the exception's message
ErrorText_Generic(e) == "An error occurred"

\* the text of the error dialog, line 195
ErrorText(e) == "An error occurred: " \o e.msg

\* main, lines 192-195: the handler of every exception that reaches main;
\* the dialog is shown, or tkinter raises again and the exception leaves main
ErrorHandler ==
    /\ pc = "handler"
    /\ \/ /\ dialog' = [kind |-> "error", title |-> "Error", msg |-> ErrorText(exc)]
          /\ pc' = "done"
       \/ /\ dialog' = dialog
          /\ pc' = "crashed"
    /\ UNCHANGED <<file_path, wb, results, excel, app, com_inits, calls, wb_vba,
                   components, idx, exc, out, output_file, console>>

Next ==
    \/ SelectFile
    \/ CancelledSelection
    \/ AnalyzeStart
    \/ LoadWorkbook
    \/ ReadSheets
    \/ CreateExcelInstance
    \/ OpenWorkbook
    \/ GetComponents
    \/ EnumComponent
    \/ CloseWorkbook
    \/ HandleVbaException
    \/ Finally
    \/ SaveAnalysis
    \/ ShowCompletion
    \/ ErrorHandler

Spec == Init /\ [][Next]_vars

-----------------------------------------------------------------------------
(* Vocabulary of the properties.                                           *)

Called(c) == \E i \in 1..Len(calls) : calls[i] = c

\* the macro-extractor stage was entered and has exited: analyze_excel_file
\* has returned (the finally clause is the last thing before the return)
ExtractorExited ==
    /\ Called("CoInitialize")
    /\ pc \in {"save", "notify", "handler", "done", "crashed"}

\* the worksheet loop has run
SheetsRead == Len(wb) > 0 /\ pc # "sheets"

\* an exception reached main's handler and main returned
EndedInError == pc = "done" /\ exc.type # ""

SectionHeadings ==
    <<"FILE INFORMATION", "WORKSHEET INFORMATION", "VBA MODULE INFORMATION",
      "VBA MODULE CODE">>

IsHeading(line) == \E i \in 1..Len(SectionHeadings) : SectionHeadings[i] = line

\* the section headings of a report, in the order they appear in it
Sections(content) == SelectSeq(content, IsHeading)

ModuleNames(r) == {r.modules[i].name : i \in 1..Len(r.modules)}

-----------------------------------------------------------------------------
(* The claims.                                                             *)

\* C1: once the macro-extractor stage has exited, on every exit path, no
\* started Excel instance is still running and every CoInitialize has been
\* matched by a CoUninitialize.
C1_SessionReleased ==
    ExtractorExited => (app # "running" /\ com_inits = 0)

\* C2: whenever the stage opened the workbook through the automation
\* session, the handle has been closed (Close(SaveChanges=False)) by the time
\* the stage exits, whatever the outcome.
C2_WorkbookClosed ==
    (ExtractorExited /\ wb_vba # "none") => wb_vba = "closed"

\* C3: if macro extraction failed (vba_error is recorded), the result's
\* modules list and module_code mapping are both empty.
C3_FailureLeavesNoModules ==
    (ExtractorExited /\ HasVbaError(results)) =>
        (results.modules = <<>> /\ results.module_code = <<>>)

\* C4: when macro extraction succeeded (no vba_error), module_code has
\* exactly the names of the modules list as keys, one entry per component in
\* enumeration order, and a module maps to "(Empty Module)" when its
\* recorded code-line count is 0 and to its retrieved source text otherwise.
C4_CodeMatchesModules ==
    (ExtractorExited /\ ~HasVbaError(results)) =>
        /\ Len(results.modules) = Len(components)
        /\ Len(results.module_code) = Len(components)
        /\ DictKeys(results.module_code) = ModuleNames(results)
        /\ \A i \in 1..Len(components) :
             /\ results.modules[i].name = components[i].Name
             /\ results.modules[i].code_lines = components[i].CountOfLines
             /\ DictGet(results.module_code, results.modules[i].name) =
                  IF results.modules[i].code_lines = 0
                  THEN "(Empty Module)"
                  ELSE components[i].Lines

C4_Witness ==
    /\ ExtractorExited
    /\ ~HasVbaError(results)
    /\ Len(results.modules) = 2
    /\ results.modules[1].code_lines = 0
    /\ results.modules[2].code_lines > 0
    /\ DictGet(results.module_code, "ThisWorkbook") = "(Empty Module)"

\* C5: a macro-extraction failure is contained. An exception of the
\* extractor stage is never in flight outside the stage's try block; once
\* vba_error is recorded the run goes on through the cleanup to the writer,
\* the worksheets list is the one the structural reader produced, and the
\* run ends with the report written and the success dialog, unless the
\* writer or the notice fails on its own.
C5_ExtractionFailureContained ==
    /\ exc.stage = "extractor" => pc = "except"
    /\ (DOMAIN results # {} /\ HasVbaError(results)) =>
         /\ pc \in {"finally", "save", "notify", "handler", "done", "crashed"}
         /\ results.worksheets = [i \in 1..Len(wb) |->
                [name |-> wb[i].title,
                 has_content |-> wb[i].dimension # "A1:A1",
                 print_area |-> IF wb[i].print_area = "" THEN "Not Set"
                                ELSE wb[i].print_area]]
         /\ pc \in {"handler", "crashed"} => exc.stage \in {"writer", "notice"}
         /\ pc = "done" =>
              \/ dialog.kind = "info" /\ out.state = "complete" /\ exc = NoExc
              \/ dialog.kind = "error" /\ exc.stage \in {"writer", "notice"}

C5_Witness ==
    /\ pc = "done"
    /\ HasVbaError(results)
    /\ results.vba_error = "VBA access not enabled in Excel Trust Center"
    /\ Len(results.worksheets) = 2
    /\ dialog.kind = "info"
    /\ out.state = "complete"

\* C6: for a path that does not exist, analyze_excel_file raises
\* FileNotFoundError before anything else: no results, the workbook is not
\* read, no automation call is made and no report file is written in the run.
C6_MissingFileAborts ==
    (file_path = MissingPath /\ pc \notin {"select", "picked"}) =>
        /\ exc = [type |-> "FileNotFoundError",
                  msg |-> "File not found: C:/docs/gone.v2.xlsx",
                  stage |-> "reader"]
        /\ pc \in {"handler", "done", "crashed"}
        /\ DOMAIN results = {}
        /\ calls = <<>>
        /\ wb = <<>>
        /\ app = "none" /\ com_inits = 0 /\ wb_vba = "none"
        /\ out.state = "absent"

C6_Witness ==
    /\ pc = "done"
    /\ file_path = MissingPath
    /\ dialog.kind = "error"
    /\ dialog.msg = "An error occurred: File not found: C:/docs/gone.v2.xlsx"

\* C7, as claimed: if an exception propagated out of a stage run by main,
\* the run ends with the error dialog carrying its message and no output
\* file exists, not even a partial one.
C7_ErrorLeavesNoFile ==
    EndedInError =>
        /\ dialog.kind = "error"
        /\ dialog.msg = "An error occurred: " \o exc.msg
        /\ out.state = "absent"

\* C7, amended: if an exception propagated out of a stage run by main and
\* main returned, the error dialog carries its message; no output file
\* exists when the picker or the reader raised; when the writer raised the
\* file is absent (open failed) or cut short; when the completion notice
\* raised the complete report is on disk. When the error dialog itself
\* cannot be shown, the exception leaves main with no dialog.
C7_ErrorDialogAndFile ==
    /\ EndedInError =>
         /\ dialog.kind = "error"
         /\ dialog.msg = "An error occurred: " \o exc.msg
         /\ exc.stage \in {"picker", "reader", "writer", "notice"}
         /\ exc.stage \in {"picker", "reader"} => out.state = "absent"
         /\ exc.stage = "writer" => out.state \in {"absent", "partial"}
         /\ exc.stage = "notice" => out.state = "complete"
    /\ pc = "crashed" => (exc.type # "" /\ dialog.kind = "none")

C7_Witness ==
    /\ EndedInError
    /\ exc.stage = "writer"
    /\ out.state = "partial"
    /\ Len(out.content) > 0
    /\ dialog.kind = "error"

\* C8, as claimed: every run of main that returns has shown a terminal
\* dialog: info on success, error on failure, and a dialog on cancellation.
C8_AlwaysADialog ==
    pc = "done" => dialog.kind \in {"info", "error"}

\* C8, amended: a run of main that returns has shown the info dialog when
\* the pipeline succeeded and the error dialog when an exception reached
\* main's handler; a cancelled picker shows no dialog: main prints
\* "No file selected" and returns.
C8_DialogUnlessCancelled ==
    pc = "done" =>
        /\ dialog.kind = IF exc.type # "" THEN "error"
                         ELSE IF file_path = "" THEN "none" ELSE "info"
        /\ dialog.kind = "none" => console = <<"No file selected">>
        /\ dialog.kind # "none" => console = <<>>
        /\ dialog.kind = "info" => (out.state = "complete" /\ output_file = out.path)

C8_Witness ==
    /\ pc = "done"
    /\ file_path = ""
    /\ exc = NoExc
    /\ dialog = NoDialog
    /\ console = <<"No file selected">>

\* C9: for a workbook of N worksheets the worksheets list has N entries in
\* the workbook's order; has_content is false exactly when the sheet's
\* dimension is "A1:A1"; print_area is the sheet's value, "Not Set" when unset.
C9_WorksheetList ==
    SheetsRead =>
        /\ Len(results.worksheets) = Len(wb)
        /\ \A i \in 1..Len(wb) :
             /\ results.worksheets[i].name = wb[i].title
             /\ results.worksheets[i].has_content = FALSE <=> wb[i].dimension = "A1:A1"
             /\ results.worksheets[i].print_area =
                  IF wb[i].print_area = "" THEN "Not Set" ELSE wb[i].print_area

C9_Witness ==
    /\ pc = "save"
    /\ Len(results.worksheets) = 2
    /\ results.worksheets[1] =
         [name |-> "Sheet1", has_content |-> TRUE, print_area |-> "Not Set"]
    /\ results.worksheets[2].name = "Sheet2"
    /\ results.worksheets[2].has_content = FALSE
    /\ results.worksheets[2].print_area # "Not Set"

\* C10, as claimed: every report written, with or without a recorded
\* vba_error, has the four sections in order: file information, worksheet
\* information, macro-module information, macro source listings.
C10_FourSections ==
    out.state = "complete" => Sections(out.content) = SectionHeadings

\* C10, amended: a report written from a result without vba_error has the
\* four sections in that order; one written from a result with vba_error has
\* three: file information, worksheet information and the macro-module
\* section holding the error, with no source listing section.
C10_SectionsByOutcome ==
    out.state = "complete" =>
        /\ Sections(out.content) =
             IF HasVbaError(results)
             THEN SubSeq(SectionHeadings, 1, 3)
             ELSE SectionHeadings
        /\ HasVbaError(results) =>
             \E i \in 1..Len(out.content) :
                out.content[i] = "Error: " \o results.vba_error

C10_Witness ==
    /\ out.state = "complete"
    /\ HasVbaError(results)
    /\ Sections(out.content) =
         <<"FILE INFORMATION", "WORKSHEET INFORMATION", "VBA MODULE INFORMATION">>

====
